---- MODULE Spec2Model ----
(***************************************************************************)
(* pg-mcp: the connection pool (class SqlPool), the tool handlers of the   *)
(* MCP server that call it, the configuration store (class ConfigManager)  *)
(* and its file watcher.                                                   *)
(*                                                                         *)
(* JavaScript runs every synchronous function to completion, so each       *)
(* SqlPool method is one atomic action; tool handlers and ConfigManager    *)
(* methods are asynchronous and interleave at their awaits.  The pool is   *)
(* keyed by the string passed to get, which the server always takes from   *)
(* the url field of a descriptor.                                          *)
(***************************************************************************)
EXTENDS Integers, Sequences, FiniteSets, TLC

\* ------------------------------------------------------------------ bounds
MaxClients == 2          \* clients constructed in one behaviour
MaxTime == 2             \* the clock runs from 0 to MaxTime
MaxCalls == 3            \* ConfigManager calls started in one behaviour
MaxEvents == 3           \* changes of the watched file in one behaviour
MaxReloads == 2          \* reloads of the watcher in progress at the same time

\* ---------------------------------------------------------------- constants
DefaultTtl == 60000      \* DbEntrySchema: ttl ... .default(60000)
LegacyTtl == 60000       \* loadConfig: the ttl of the entry made from POSTGRES_URL
DEBOUNCE_MS == 100       \* ConfigManager.DEBOUNCE_MS

\* ------------------------------------------------------------------ inputs
Urls == {"u1", "u2"}     \* connection URLs (the pool's keys)
Names == {"a", "b"}      \* database names of the configuration
Ttls == {1, 3}           \* TTL values, in clock units
Handlers == {"h1", "h2"} \* tool calls in progress at the same time

\* The ttl field of the descriptors with url u.  SqlPool never reads a
\* descriptor's ttl, so the configurations fed to it are those in which the
\* url decides the ttl: 1 for u1 and 3 for u2.
TtlOf(u) == IF u = "u1" THEN 1 ELSE 3

\* URLs whose server does not answer: new SQL(url) returns a client for
\* them, but a round trip on that client fails.
Unreachable == {"u2"}

\* DbEntry and Config.databases (name -> DbEntry)
DbEntry(u) == [url |-> u, ttl |-> TtlOf(u)]
Databases == UNION { [S -> { DbEntry(u) : u \in Urls }] : S \in SUBSET Names }

\* Object.values(newConfig.databases): the descriptors in property order
Orders(S) ==
  { s \in [1..Cardinality(S) -> S] : \A i, j \in 1..Cardinality(S) : s[i] = s[j] => i = j }

VARIABLES
  pool,            \* SqlPool.pool: url -> PoolEntry (client = 0: no entry)
  clients,         \* every SQL client constructed so far, by handle
  ttl,             \* SqlPool.ttl
  reaperInterval,  \* the interval timers SqlPool has running; the field holds the last
  now,             \* Date.now()
  pc,              \* per tool call: "idle", "get" (url read, pool.get next), "query"
  url,             \* per tool call: the url read from the descriptor
  ret,             \* per tool call: the handle pool.get returned (0: none)
  seen,            \* per tool call: the handle pooled for url when the url was read
  getEp,           \* per tool call: evictions of url before its pool.get ran
  lastOp,          \* the pool operation that produced this state
  file,            \* the content of the configuration file
  tmp,             \* the content of <path>.tmp
  env,             \* process.env.POSTGRES_URL
  call,            \* per caller: the ConfigManager call in progress
  calls,           \* ConfigManager calls started so far
  watcher,         \* ConfigManager.watcher is set
  reloadCallback,  \* ConfigManager.reloadCallback is set
  reloadTimer,     \* ConfigManager.reloadTimer: pending or not, and the ms left
  reloads,         \* the timer callbacks in progress, each at its await
  sinceEvent,      \* the change events since the timer last fired, ms since the last one
  unseen,          \* the watcher was told of a change that no reload has read yet
  events           \* changes of the file so far

vars == <<pool, clients, ttl, reaperInterval, now, pc, url, ret, seen, getEp, lastOp,
          file, tmp, env, call, calls,
          watcher, reloadCallback, reloadTimer, reloads, sinceEvent, unseen, events>>

\* interface PoolEntry; client 0 stands for a key without entry
NoEntry == [client |-> 0, lastUsed |-> 0]

\* The pool and the clients, threaded through the pool's methods.
State(p, c) == [pool |-> p, clients |-> c]

\* Evictions of key k so far: every eviction ends one client of k.
Episode(c, k) == Cardinality({ i \in 1..Len(c) : c[i].key = k /\ c[i].closed })

\* if (this.pool[database])
HitNever(p, k) == FALSE
Hit(p, k) == p[k].client # 0

\* new SQL(database); this.pool[database] = { client, lastUsed: now }
\* A client records its key, whether end() was called on it, the time get
\* last returned it and the evictions of its key before it was constructed.
construct(st, k, t) ==
  [pool |-> [st.pool EXCEPT ![k] = [client |-> Len(st.clients) + 1, lastUsed |-> t]],
   clients |-> Append(st.clients,
                      [key |-> k, closed |-> FALSE, used |-> t,
                       ep |-> Episode(st.clients, k)])]

\* this.pool[database].lastUsed = now
touchNot(st, k, t) == st
touch(st, k, t) == [st EXCEPT !.pool[k].lastUsed = t]

\* return this.pool[database].client
returned(st, k, t) == [st EXCEPT !.clients[st.pool[k].client].used = t]

\* SqlPool.get when the constructor is not reached or does not throw
getFresh(st, k, t) == construct(st, k, t)
get(st, k, t) ==
  IF Hit(st.pool, k) THEN returned(touch(st, k, t), k, t) ELSE construct(st, k, t)

\* entry.client.end(): what is kept of a client that was ended
Ended(c) == [c EXCEPT !.closed = TRUE, !.used = 0]

\* SqlPool.evict
evictNoEnd(st, k) ==
  IF Hit(st.pool, k) THEN [st EXCEPT !.pool[k] = NoEntry] ELSE st
evictNoDelete(st, k) ==
  IF Hit(st.pool, k) THEN [st EXCEPT !.clients[st.pool[k].client] = Ended(@)] ELSE st
evictElseClear(st, k) ==
  IF Hit(st.pool, k)
    THEN [pool |-> [st.pool EXCEPT ![k] = NoEntry],
          clients |-> [st.clients EXCEPT ![st.pool[k].client] = Ended(@)]]
    ELSE [st EXCEPT !.pool = [x \in DOMAIN st.pool |-> NoEntry]]
evict(st, k) ==
  IF Hit(st.pool, k)
    THEN [pool |-> [st.pool EXCEPT ![k] = NoEntry],
          clients |-> [st.clients EXCEPT ![st.pool[k].client] = Ended(@)]]
    ELSE st

\* for (const db ...) this.evict(db), over the keys ks
RECURSIVE evictAll(_, _)
evictAll(st, ks) ==
  IF ks = {} THEN st
  ELSE LET k == CHOOSE x \in ks : TRUE IN evictAll(evict(st, k), ks \ {k})

\* newDatabases.includes(db)
InNewConfigByName(dbs, k) == k \in DOMAIN dbs
InNewConfig(dbs, k) == \E n \in DOMAIN dbs : dbs[n].url = k

\* The second loop of reconcile from descriptor i on: a descriptor whose url
\* has no entry gets a client; the loop ends early when the constructor
\* throws, which it does for the urls in fail.
RECURSIVE addNew(_, _, _, _, _, _)
addNew(st, dbs, ord, i, fail, t) ==
  IF i > Len(ord) THEN st
  ELSE LET u == dbs[ord[i]].url IN
       IF Hit(st.pool, u) THEN addNew(st, dbs, ord, i + 1, fail, t)
       ELSE IF u \in fail THEN st
       ELSE addNew(get(st, u, t), dbs, ord, i + 1, fail, t)

\* SqlPool.reconcile
reconcile(st, dbs, ord, fail, t) ==
  addNew(evictAll(st, { k \in Urls : Hit(st.pool, k) /\ ~InNewConfig(dbs, k) }),
         dbs, ord, 1, fail, t)

\* now - entry.lastUsed > this.ttl
ExpiredNever(e, t, T) == FALSE
Expired(e, t, T) == t - e.lastUsed > T

\* the callback of the reaper's setInterval
reap(st, t, T) == evictAll(st, { k \in Urls : Hit(st.pool, k) /\ Expired(st.pool[k], t, T) })

\* The loop of the reaper's callback over the keys in the order ord, from
\* the i-th on, when end() throws for the client of bad.
RECURSIVE reapUntil(_, _, _, _, _, _)
reapUntil(st, ord, i, bad, t, T) ==
  IF i > Len(ord) \/ ord[i] = bad THEN st
  ELSE IF Hit(st.pool, ord[i]) /\ Expired(st.pool[ord[i]], t, T)
         THEN reapUntil(evict(st, ord[i]), ord, i + 1, bad, t, T)
         ELSE reapUntil(st, ord, i + 1, bad, t, T)

\* if (this.reaperInterval) return; this.reaperInterval = setInterval(...)
startIdleReaperAgain(n) == n + 1
startIdleReaper(n) == IF n > 0 THEN n ELSE n + 1

\* if (this.reaperInterval) { clearInterval(this.reaperInterval); ... = null }
stopIdleReaperKeeps(n) == n
stopIdleReaper(n) == IF n > 0 THEN n - 1 ELSE n

\* SqlPool.closeAll
closeAllNoEnd(st) == [st EXCEPT !.pool = [k \in Urls |-> NoEntry]]
closeAll(st) ==
  [evictAll(st, { k \in Urls : Hit(st.pool, k) }) EXCEPT !.pool = [k \in Urls |-> NoEntry]]

EmptyDbs == [n \in {} |-> DbEntry("u1")]
Op(o, a) == [op |-> o, arg |-> a]
Other == Op("other", EmptyDbs)
\* the argument of an operation called with the pool key k
KeyArg(k) == [x \in {k} |-> DbEntry(k)]

\* lastOp after a pool operation; the server specification does not record it.
Log(log, o) == lastOp' = IF log THEN o ELSE lastOp

handlerVars == <<pc, url, ret, seen, getEp>>
timerVars == <<ttl, reaperInterval, now>>
storeVars == <<file, tmp, env, call, calls>>
watchVars == <<watcher, reloadCallback, reloadTimer, reloads, sinceEvent, unseen, events>>
poolVars == <<pool, clients, ttl, reaperInterval, now, pc, url, ret, seen, getEp, lastOp>>

\* ------------------------------------------------ the configuration store

\* ConfigManager calls in progress at the same time
Procs == {"p1", "p2"}

\* File contents.  A file that does not exist, a file that is no JSON text,
\* a file that was opened for writing and not yet written, and the text
\* JSON.stringify makes of a value.
Absent == [kind |-> "absent"]
Corrupt == [kind |-> "corrupt"]
Partial == [kind |-> "partial"]

\* JSON.stringify(config, null, 2): a property that is undefined is left
\* out, which a record without that field stands for.
stringifyNothing(c) == [kind |-> "json", value |-> [x \in {} |-> c]]
stringify(c) == [kind |-> "json", value |-> c]

\* JSON.parse(data): throws unless data is JSON text
parse(t) == [ok |-> t.kind = "json", value |-> IF t.kind = "json" THEN t.value ELSE EmptyDbs]

\* DbEntrySchema: url is a string, ttl a number >= 0 with default 60000
TtlAcceptedAlways(e) == TRUE
TtlAccepted(e) == "ttl" \in DOMAIN e => e.ttl >= 0
DbEntrySchemaNoDefault(e) ==
  LET ok == "url" \in DOMAIN e /\ TtlAccepted(e) IN
    [success |-> ok,
     data |-> IF ok THEN [url |-> e.url, ttl |-> IF "ttl" \in DOMAIN e THEN e.ttl ELSE 0]
                    ELSE EmptyDbs]
DbEntrySchema(e) ==
  LET ok == "url" \in DOMAIN e /\ TtlAccepted(e) IN
    [success |-> ok,
     data |-> IF ok THEN [url |-> e.url, ttl |-> IF "ttl" \in DOMAIN e THEN e.ttl ELSE DefaultTtl]
                    ELSE EmptyDbs]

\* the place of a Config where there is none
NoConfig == [databases |-> EmptyDbs]

\* ConfigSchema: databases is a record of DbEntrySchema, autoReload a
\* boolean with default false
ConfigSchema(c) ==
  LET ok == /\ "databases" \in DOMAIN c
            /\ \A n \in DOMAIN c.databases : DbEntrySchema(c.databases[n]).success IN
    [success |-> ok,
     data |-> IF ok THEN [databases |-> [n \in DOMAIN c.databases |->
                                           DbEntrySchema(c.databases[n]).data],
                          autoReload |-> IF "autoReload" \in DOMAIN c THEN c.autoReload ELSE FALSE]
                    ELSE NoConfig]

\* loadConfig, the try block: readFile, JSON.parse, ConfigSchema.safeParse.
\* "ENOENT" when the file does not exist, "LoadFailed" for every other error.
IsEnoentAlways(f) == TRUE
IsEnoent(f) == f = Absent
readOutcome(f) ==
  IF parse(f).ok /\ ConfigSchema(parse(f).value).success THEN "ok"
  ELSE IF IsEnoent(f) THEN "ENOENT"
  ELSE "LoadFailed"
readData(f) == ConfigSchema(parse(f).value).data

\* loadConfig, the ENOENT branch: the configuration made from POSTGRES_URL
legacyNoReload(e) == [databases |-> EmptyDbs, autoReload |-> FALSE]
legacy(e) ==
  [databases |-> IF e # "unset" THEN [n \in {"default"} |-> [url |-> e, ttl |-> LegacyTtl]]
                                 ELSE EmptyDbs,
   autoReload |-> TRUE]

\* config.databases[name] = entry
withEntryDropped(dbs, n, e) == dbs
withEntry(dbs, n, e) == [x \in DOMAIN dbs \cup {n} |-> IF x = n THEN e ELSE dbs[x]]
\* delete config.databases[name]
withoutEntryAll(dbs, n) == EmptyDbs
withoutEntry(dbs, n) == [x \in DOMAIN dbs \ {n} |-> dbs[x]]
\* { ...config.databases[name], ...update }
mergedKeepsOld(old, upd) == old
merged(old, upd) == [f \in DOMAIN old \cup DOMAIN upd |-> IF f \in DOMAIN upd THEN upd[f] ELSE old[f]]

\* No other caller's addDatabase, updateDatabase or removeDatabase has
\* succeeded while this call was in progress.
NoPeer == [name |-> "none", stored |-> FALSE]

\* A caller without call in progress, and the settled call.
Idle ==
  [op |-> "none", name |-> "none", arg |-> EmptyDbs, cfg |-> NoConfig,
   pc |-> "idle", stage |-> "none", res |-> "none", fd |-> "none", peer |-> NoPeer,
   msg |-> {}]
settled(c, r) ==
  [c EXCEPT !.pc = "done", !.res = r, !.stage = "none", !.fd = "none", !.peer = NoPeer]
failed(c, r) == [settled(c, r) EXCEPT !.cfg = NoConfig]

\* Object.keys(config.databases): the names, in the order the object keeps
\* them, which is taken to be this one.
KeyOrder == <<"a", "b", "default">>
dbNamesNone(dbs) == <<>>
dbNames(dbs) == SelectSeq(KeyOrder, LAMBDA n : n \in DOMAIN dbs)
Range(q) == { q[i] : i \in DOMAIN q }

\* getConfig when the name is not there: the error says that no database is
\* configured, or lists the names that are.
notFound(c, dbs) ==
  IF Len(dbNames(dbs)) = 0 THEN failed(c, "NoDatabases")
  ELSE [failed(c, "NotFound") EXCEPT !.msg = Range(dbNames(dbs))]

\* resolveDatabaseName after getDatabasesInfo's loadConfig: the Config has no
\* defaultDatabase, so find() yields undefined and defaultDbName is
\* dbNames.at(0); c.name is the database argument, "none" for undefined.
resolveDatabaseName(c, dbs) ==
  LET defaultDbName == IF Len(dbNames(dbs)) = 0 THEN "none" ELSE dbNames(dbs)[1]
      name == IF c.name # "none" THEN c.name ELSE defaultDbName IN
  IF name = "none"
    THEN IF Len(dbNames(dbs)) = 0 THEN failed(c, "NoDatabases")
         ELSE [failed(c, "Multiple") EXCEPT !.msg = Range(dbNames(dbs))]
    ELSE [settled(c, "ok") EXCEPT !.arg = [name |-> name]]

\* saveConfig up to its first await: validate, then write <path>.tmp
saveConfigAlways(c, cfg) == [c EXCEPT !.cfg = cfg, !.pc = "open"]
saveConfig(c, cfg) ==
  IF ConfigSchema(cfg).success THEN [c EXCEPT !.cfg = cfg, !.pc = "open"]
  ELSE failed(c, "InvalidConfig")

\* What a call does with the configuration loadConfig returned, up to its
\* next await: loadConfig and getConfig return, addDatabase, updateDatabase
\* and removeDatabase check, change the configuration and save it.
afterLoad(c, cfg) ==
  LET dbs == cfg.databases
      own == [c EXCEPT !.stage = "save"] IN
  CASE c.op = "load" -> [settled(c, "ok") EXCEPT !.cfg = cfg]
    [] c.op = "resolve" -> resolveDatabaseName(c, dbs)
    [] c.op = "get" ->
         IF c.name \notin DOMAIN dbs THEN notFound(c, dbs)
         ELSE IF ~DbEntrySchema(dbs[c.name]).success THEN failed(c, "InvalidEntry")
         ELSE [settled(c, "ok") EXCEPT !.arg = DbEntrySchema(dbs[c.name]).data]
    [] c.op = "add" ->
         IF c.name \in DOMAIN dbs THEN failed(c, "AlreadyExists")
         ELSE IF ~DbEntrySchema(c.arg).success THEN failed(c, "InvalidEntry")
         ELSE saveConfig(own, [cfg EXCEPT !.databases =
                                 withEntry(dbs, c.name, DbEntrySchema(c.arg).data)])
    [] c.op = "update" ->
         IF c.name \notin DOMAIN dbs THEN failed(c, "NotFound")
         ELSE IF ~DbEntrySchema(merged(dbs[c.name], c.arg)).success THEN failed(c, "InvalidEntry")
         ELSE saveConfig(own, [cfg EXCEPT !.databases =
                                 withEntry(dbs, c.name,
                                           DbEntrySchema(merged(dbs[c.name], c.arg)).data)])
    [] c.op = "remove" ->
         IF c.name \notin DOMAIN dbs THEN failed(c, "NotFound")
         ELSE saveConfig(own, [cfg EXCEPT !.databases = withoutEntry(dbs, c.name)])

\* The file descriptors of the writers after <path>.tmp was renamed over
\* the file: an open <path>.tmp is now the file, the old file has no name.
renamed(fd) == IF fd = "tmp" THEN "file" ELSE IF fd = "file" THEN "orphan" ELSE fd

StoreInit(f, e) ==
  /\ file = f
  /\ tmp = Absent
  /\ env = e
  /\ call = [p \in Procs |-> Idle]
  /\ calls = 0

\* ------------------------------------------------ the file watcher

\* this.reloadTimer: no timer pending, and setTimeout(..., DEBOUNCE_MS)
NoTimer == [armed |-> FALSE, left |-> 0]
rearmKeeps(t) == IF t.armed THEN t ELSE [armed |-> TRUE, left |-> DEBOUNCE_MS]
rearm(t) == [armed |-> TRUE, left |-> DEBOUNCE_MS]

\* A place for a timer callback in progress: free, awaiting readFile, or
\* holding what loadConfig made of the content read.
NoReload == [kind |-> "free"]
Reading == [kind |-> "reading"]

\* The change events of a burst: how many there were, the ms since the last
\* of them, and whether the timer they set has fired.
NoEvent == [n |-> 0, ms |-> 0, fired |-> FALSE]
heard(e) == IF e.fired THEN [n |-> 1, ms |-> 0, fired |-> FALSE] ELSE [e EXCEPT !.n = @ + 1, !.ms = 0]

\* What the loadConfig of a timer callback makes of the content f it read:
\* a configuration, or an error.
Loaded(f) == [kind |-> "loaded", ok |-> readOutcome(f) = "ok", cfg |-> readData(f)]

\* newConfig?.autoReload && this.reloadCallback, for the outcome c of
\* loadConfig
InvokesNever(c, cb) == FALSE
InvokesAlways(c, cb) == TRUE
InvokesUnlessStopped(c, cb) == cb
InvokesWithoutCallback(c, cb) == c.ok /\ c.cfg.autoReload
Invokes(c, cb) == c.ok /\ c.cfg.autoReload /\ cb

\* What the timer callback did when its loadConfig settled with c
outcome(c, cb) ==
  IF Invokes(c, cb) THEN Op("reconcile", c.cfg.databases)
  ELSE IF ~c.ok THEN Op("reloadFailed", EmptyDbs)
  ELSE IF ~cb THEN Op("stopped", EmptyDbs)
  ELSE Op("noAutoReload", EmptyDbs)

WatchInit ==
  /\ watcher = FALSE
  /\ reloadCallback = FALSE
  /\ reloadTimer = NoTimer
  /\ reloads = [r \in 1..MaxReloads |-> NoReload]
  /\ sinceEvent = NoEvent
  /\ unseen = FALSE
  /\ events = 0

Init ==
  /\ StoreInit(Absent, "unset")
  /\ WatchInit
  /\ pool = [k \in Urls |-> NoEntry]
  /\ clients = <<>>
  /\ ttl \in Ttls
  /\ reaperInterval = 0
  /\ now = 0
  /\ pc = [h \in Handlers |-> "idle"]
  /\ url = [h \in Handlers |-> "none"]
  /\ ret = [h \in Handlers |-> 0]
  /\ seen = [h \in Handlers |-> 0]
  /\ getEp = [h \in Handlers |-> 0]
  /\ lastOp = Other

\* ------------------------------------------------ the pool's operations

\* pool.get(k) for the url k of descriptor n, when the constructor is not
\* reached or does not throw.
Get(k, n) ==
  /\ Hit(pool, k) \/ Len(clients) < MaxClients
  /\ LET st == get(State(pool, clients), k, now) IN
       /\ pool' = st.pool
       /\ clients' = st.clients
  /\ lastOp' = Op("get", [x \in {n} |-> DbEntry(k)])
  /\ UNCHANGED <<handlerVars, timerVars>>
  /\ UNCHANGED <<storeVars, watchVars>>

\* pool.get(k) when new SQL(k) throws: the assignment to this.pool is not
\* reached.
GetThrows(k) ==
  /\ ~Hit(pool, k)
  /\ lastOp' = Op("getThrows", EmptyDbs)
  /\ UNCHANGED <<pool, clients, handlerVars, timerVars>>
  /\ UNCHANGED <<storeVars, watchVars>>

Evict(k, log) ==
  /\ LET st == evict(State(pool, clients), k) IN
       /\ pool' = st.pool
       /\ clients' = st.clients
  /\ Log(log, Op("evict", KeyArg(k)))
  /\ UNCHANGED <<handlerVars, timerVars>>
  /\ UNCHANGED <<storeVars, watchVars>>

\* The urls of the new configuration that reconcile has to construct a
\* client for: only for these can the constructor throw.
Missing(p, dbs) == { u \in { dbs[n].url : n \in DOMAIN dbs } : ~Hit(p, u) }

Reconcile(dbs, ord, fail, log) ==
  /\ LET st == reconcile(State(pool, clients), dbs, ord, fail, now) IN
       /\ Len(st.clients) <= MaxClients
       /\ pool' = st.pool
       /\ clients' = st.clients
  /\ Log(log, Op("reconcile", dbs))
  /\ UNCHANGED <<handlerVars, timerVars>>
  /\ UNCHANGED <<storeVars, watchVars>>

CloseAll(log) ==
  /\ LET st == closeAll(State(pool, clients)) IN
       /\ pool' = st.pool
       /\ clients' = st.clients
  /\ Log(log, Op("closeAll", EmptyDbs))
  /\ UNCHANGED <<handlerVars, timerVars>>
  /\ UNCHANGED <<storeVars, watchVars>>

SetTTL(T, log) ==
  /\ ttl' = T
  /\ Log(log, Other)
  /\ UNCHANGED <<pool, clients, reaperInterval, now, handlerVars>>
  /\ UNCHANGED <<storeVars, watchVars>>

StartIdleReaper(log) ==
  /\ reaperInterval' = startIdleReaper(reaperInterval)
  /\ Log(log, Op("startIdleReaper", EmptyDbs))
  /\ UNCHANGED <<pool, clients, ttl, now, handlerVars>>
  /\ UNCHANGED <<storeVars, watchVars>>

StopIdleReaper(log) ==
  /\ reaperInterval' = stopIdleReaper(reaperInterval)
  /\ Log(log, Op("stopIdleReaper", EmptyDbs))
  /\ UNCHANGED <<pool, clients, ttl, now, handlerVars>>
  /\ UNCHANGED <<storeVars, watchVars>>

ReaperTick(log) ==
  /\ reaperInterval > 0
  /\ LET st == reap(State(pool, clients), now, ttl) IN
       /\ pool' = st.pool
       /\ clients' = st.clients
  /\ Log(log, Op("tick", EmptyDbs))
  /\ UNCHANGED <<handlerVars, timerVars>>
  /\ UNCHANGED <<storeVars, watchVars>>

\* A tick of the reaper during which entry.client.end() fails for the client
\* of the expired key bad.  Nothing in the callback or in evict catches it:
\* when end() throws, the exception leaves evict before the delete, the loop
\* and the callback, so the keys after bad in the order of the loop are not
\* looked at; when end() returns a promise that rejects, the loop goes on and
\* the rejection is handled by nobody.
ReaperTickFails(bad, ord, throws) ==
  /\ reaperInterval > 0
  /\ Hit(pool, bad) /\ Expired(pool[bad], now, ttl)
  /\ LET st == IF throws THEN reapUntil(State(pool, clients), ord, 1, bad, now, ttl)
                         ELSE reap(State(pool, clients), now, ttl) IN
       /\ pool' = st.pool
       /\ clients' = st.clients
  /\ lastOp' = Op(IF throws THEN "tickThrows" ELSE "tickRejects", KeyArg(bad))
  /\ UNCHANGED <<handlerVars, timerVars>>
  /\ UNCHANGED <<storeVars, watchVars>>

\* Time passes.
Advance(log) ==
  /\ now < MaxTime
  /\ now' = now + 1
  /\ Log(log, Other)
  /\ UNCHANGED <<pool, clients, ttl, reaperInterval, handlerVars>>
  /\ UNCHANGED <<storeVars, watchVars>>

\* The pool driven through its methods, as its tests drive it.
Next ==
  \/ \E k \in Urls, n \in Names : Get(k, n)
  \/ \E k \in Urls : GetThrows(k)
  \/ \E k \in Urls : Evict(k, TRUE)
  \/ \E dbs \in Databases : \E ord \in Orders(DOMAIN dbs), fail \in SUBSET Missing(pool, dbs) :
       Reconcile(dbs, ord, fail, TRUE)
  \/ CloseAll(TRUE)
  \/ \E T \in Ttls : SetTTL(T, TRUE)
  \/ StartIdleReaper(TRUE)
  \/ StopIdleReaper(TRUE)
  \/ ReaperTick(TRUE)
  \/ \E bad \in Urls, ord \in Orders(Urls), throws \in BOOLEAN : ReaperTickFails(bad, ord, throws)
  \/ Advance(TRUE)

Spec == Init /\ [][Next]_vars

\* ------------------------------------------------ the server's tool handlers

\* A tool handler up to its call of pool.get: resolveDatabaseName and
\* getConfig are awaited and yield the url of the descriptor.
HandlerResolve(h, u) ==
  /\ pc[h] = "idle"
  /\ pc' = [pc EXCEPT ![h] = "get"]
  /\ url' = [url EXCEPT ![h] = u]
  /\ seen' = [seen EXCEPT ![h] = pool[u].client]
  /\ UNCHANGED <<pool, clients, ret, getEp, timerVars, lastOp>>
  /\ UNCHANGED <<storeVars, watchVars>>

\* const client = pool.get(url), when the constructor is not reached or
\* does not throw; the handler then awaits its query.
HandlerGet(h) ==
  /\ pc[h] = "get"
  /\ Hit(pool, url[h]) \/ Len(clients) < MaxClients
  /\ LET st == get(State(pool, clients), url[h], now) IN
       /\ pool' = st.pool
       /\ clients' = st.clients
       /\ ret' = [ret EXCEPT ![h] = st.pool[url[h]].client]
  /\ getEp' = [getEp EXCEPT ![h] = Episode(clients, url[h])]
  /\ pc' = [pc EXCEPT ![h] = "query"]
  /\ UNCHANGED <<url, seen, timerVars, lastOp>>
  /\ UNCHANGED <<storeVars, watchVars>>

\* pool.get(url) when new SQL(url) throws: the handler's catch returns an
\* error result.
HandlerGetThrows(h) ==
  /\ pc[h] = "get"
  /\ ~Hit(pool, url[h])
  /\ pc' = [pc EXCEPT ![h] = "idle"]
  /\ url' = [url EXCEPT ![h] = "none"]
  /\ seen' = [seen EXCEPT ![h] = 0]
  /\ UNCHANGED <<pool, clients, ret, getEp, timerVars, lastOp>>
  /\ UNCHANGED <<storeVars, watchVars>>

\* pg_describe_table: the first awaited query settled and the handler sends
\* the next one on the client it holds.
HandlerNextQuery(h) ==
  /\ pc[h] = "query"
  /\ pc' = [pc EXCEPT ![h] = "query2"]
  /\ UNCHANGED <<pool, clients, url, ret, seen, getEp, timerVars, lastOp>>
  /\ UNCHANGED <<storeVars, watchVars>>

\* The awaited query settles and the handler returns.
HandlerDone(h) ==
  /\ pc[h] \in {"query", "query2"}
  /\ pc' = [pc EXCEPT ![h] = "idle"]
  /\ url' = [url EXCEPT ![h] = "none"]
  /\ ret' = [ret EXCEPT ![h] = 0]
  /\ seen' = [seen EXCEPT ![h] = 0]
  /\ getEp' = [getEp EXCEPT ![h] = 0]
  /\ UNCHANGED <<pool, clients, timerVars, lastOp>>
  /\ UNCHANGED <<storeVars, watchVars>>

\* Tool handlers in progress while the pool is evicted from, reconciled,
\* closed and reaped.
NextServer ==
  \/ \E h \in Handlers, u \in Urls : HandlerResolve(h, u)
  \/ \E h \in Handlers : HandlerGet(h)
  \/ \E h \in Handlers : HandlerGetThrows(h)
  \/ \E h \in Handlers : HandlerDone(h)
  \/ \E k \in Urls : Evict(k, FALSE)
  \/ \E dbs \in Databases : \E ord \in Orders(DOMAIN dbs), fail \in SUBSET Missing(pool, dbs) :
       Reconcile(dbs, ord, fail, FALSE)
  \/ CloseAll(FALSE)
  \/ StartIdleReaper(FALSE)
  \/ StopIdleReaper(FALSE)
  \/ ReaperTick(FALSE)
  \/ Advance(FALSE)

\* createMcpServer: pool = new SqlPool(), whose TTL the server never changes
InitServer == Init /\ ttl = 1

SpecServer == InitServer /\ [][NextServer]_vars

\* The server as createMcpServer and main set it up: tool handlers get
\* clients, the configuration tools and the watcher's callback reconcile, and
\* time passes.  Nothing calls startIdleReaper, so the interval callback of
\* the reaper is no step of the running server.
NextRunning ==
  \/ \E h \in Handlers, u \in Urls : HandlerResolve(h, u)
  \/ \E h \in Handlers : HandlerGet(h)
  \/ \E h \in Handlers : HandlerGetThrows(h)
  \/ \E h \in Handlers : HandlerDone(h)
  \/ \E dbs \in Databases : \E ord \in Orders(DOMAIN dbs), fail \in SUBSET Missing(pool, dbs) :
       Reconcile(dbs, ord, fail, FALSE)
  \/ Advance(FALSE)

\* Time does not stop while it can pass.
SpecRunning == InitServer /\ [][NextRunning]_vars /\ WF_vars(Advance(FALSE))

\* ------------------------------------------------ the store's operations

\* Descriptors handed to addDatabase: a valid one, one with a negative ttl
\* and one without ttl.
RawEntries == { DbEntry("u1"), [url |-> "u1", ttl |-> -1], [url |-> "u2"] }

\* addDatabase is called with every descriptor for "a" and with the valid
\* one for "b".
AddArgs ==
  { [name |-> "a", entry |-> e] : e \in RawEntries } \cup { [name |-> "b", entry |-> DbEntry("u1")] }

\* Partial<DbEntry> handed to updateDatabase
Updates == { [ttl |-> 3], [ttl |-> -1] }

\* Configurations handed to saveConfig: without database, with two valid
\* descriptors, with a descriptor whose url is no URL and whose ttl is 0, and
\* with a descriptor whose ttl is negative.
RawConfigs ==
  { [databases |-> EmptyDbs, autoReload |-> TRUE],
    [databases |-> [n \in {"a", "b"} |-> DbEntry("u1")], autoReload |-> FALSE],
    [databases |-> [n \in {"a"} |-> [url |-> "nourl", ttl |-> 0]], autoReload |-> TRUE],
    [databases |-> [n \in {"a"} |-> [url |-> "u1", ttl |-> -1]], autoReload |-> TRUE] }

\* The file when the store is constructed: none, one that does not parse,
\* one without databases, and one written by hand that leaves ttl and
\* autoReload out.
InitialFiles ==
  { Absent, Corrupt,
    stringify([autoReload |-> TRUE]),
    stringify([databases |-> [n \in {"a"} |-> [url |-> "u1"]]]) }

\* The database argument of a tool: not given, or a name.
Requested == {"none", "b"}

\* process.env.POSTGRES_URL
Envs == {"unset", "u1"}

\* A call in progress is between two of its awaits.
Busy(c) == c.pc \in {"open", "write", "rename"}

\* What the call d in progress has seen succeed when the save of call c is
\* renamed over the file.
Mutators == {"add", "update", "remove"}
overlapped(c, d) ==
  IF Busy(d) /\ c.op \in Mutators /\ c.stage = "save"
    THEN [name |-> c.name, stored |-> c.name \in DOMAIN c.cfg.databases]
    ELSE d.peer

\* The calls after caller p's call became c: a result that was returned is
\* with its caller, who holds it no longer than to the next step.
step(p, c) ==
  [q \in Procs |-> IF q = p THEN c ELSE IF call[q].pc = "done" THEN Idle ELSE call[q]]

\* The caller that makes the next call: the first that has none in progress.
Free(p) == ~Busy(call[p]) /\ \A q \in Procs : ~Busy(call[q]) => p = "p1" \/ q # "p1"

\* loadConfig, from the moment its readFile settles: it returns the parsed
\* configuration, throws, or makes the configuration of a missing file and
\* saves it.
loadConfig(c, f, e) ==
  CASE readOutcome(f) = "ok" -> afterLoad(c, readData(f))
    [] readOutcome(f) = "ENOENT" -> saveConfig(c, legacy(e))
    [] OTHER -> failed(c, "LoadFailed")

\* A call that begins with loadConfig, taken when its readFile settles.
Begin(p, o, n, a) ==
  /\ Free(p)
  /\ calls < MaxCalls
  /\ calls' = calls + 1
  /\ call' = step(p, loadConfig([Idle EXCEPT !.op = o, !.name = n, !.arg = a,
                                                !.stage = "load"], file, env))
  /\ UNCHANGED <<file, tmp, env, poolVars, watchVars>>

\* loadConfig(), getConfig(name), addDatabase(name, e),
\* updateDatabase(name, u), removeDatabase(name)
CallLoad(p) == Begin(p, "load", "none", EmptyDbs)
CallGet(p, n) == Begin(p, "get", n, EmptyDbs)
CallAdd(p, n, e) == Begin(p, "add", n, e)
CallUpdate(p, n, u) == Begin(p, "update", n, u)
CallRemove(p, n) == Begin(p, "remove", n, EmptyDbs)
\* resolveDatabaseName(configManager, database)
CallResolve(p, n) == Begin(p, "resolve", n, EmptyDbs)

\* saveConfig(cfg) called directly: it validates and goes on to writeFile.
CallSave(p, cfg) ==
  /\ Free(p)
  /\ calls < MaxCalls
  /\ calls' = calls + 1
  /\ call' = step(p, saveConfig([Idle EXCEPT !.op = "save", !.stage = "save"], cfg))
  /\ UNCHANGED <<file, tmp, env, poolVars, watchVars>>

\* fs.writeFile(tmpPath, ...) opens <path>.tmp: the file is created, or the
\* one that exists is truncated.
OpenTmp(p) ==
  /\ call[p].pc = "open"
  /\ tmp' = Partial
  /\ call' = step(p, [call[p] EXCEPT !.pc = "write", !.fd = "tmp"])
  /\ UNCHANGED <<file, env, calls, poolVars, watchVars>>

\* fs.writeFile writes the text to the file it opened, wherever that file
\* is by now, and closes it.
WriteTmp(p) ==
  /\ call[p].pc = "write"
  /\ tmp' = IF call[p].fd = "tmp" THEN stringify(call[p].cfg) ELSE tmp
  /\ file' = IF call[p].fd = "file" THEN stringify(call[p].cfg) ELSE file
  /\ call' = step(p, [call[p] EXCEPT !.pc = "rename", !.fd = "none"])
  /\ UNCHANGED <<env, calls, poolVars, watchVars>>

\* fs.rename(tmpPath, path) moves <path>.tmp over the file; saveConfig
\* returns, and so does the call unless it was loadConfig's own save.
Rename(p) ==
  /\ call[p].pc = "rename"
  /\ tmp # Absent
  /\ file' = tmp
  /\ tmp' = Absent
  /\ call' = [q \in Procs |->
                IF q = p
                  THEN IF call[p].stage = "load" THEN afterLoad(call[p], call[p].cfg)
                       ELSE failed(call[p], "ok")
                  ELSE [step(p, call[p])[q] EXCEPT !.fd = renamed(@),
                                                    !.peer = overlapped(call[p], call[q])]]
  /\ UNCHANGED <<env, calls, poolVars, watchVars>>

\* fs.rename throws ENOENT: <path>.tmp is gone, another save renamed it.
RenameFails(p) ==
  /\ call[p].pc = "rename"
  /\ tmp = Absent
  /\ call' = step(p, failed(call[p], IF call[p].stage = "load" THEN "CreateDefaultFailed"
                                       ELSE "SaveFailed"))
  /\ UNCHANGED <<file, tmp, env, calls, poolVars, watchVars>>

\* Calls of one ConfigManager that overlap at their awaits.
NextConfig ==
  \/ \E p \in Procs : CallLoad(p)
  \/ \E p \in Procs, n \in Names : CallGet(p, n)
  \/ \E p \in Procs, a \in AddArgs : CallAdd(p, a.name, a.entry)
  \/ \E p \in Procs, u \in Updates : CallUpdate(p, "a", u)
  \/ \E p \in Procs, n \in Names : CallRemove(p, n)
  \/ \E p \in Procs, n \in Requested : CallResolve(p, n)
  \/ \E p \in Procs, cfg \in RawConfigs : CallSave(p, cfg)
  \/ \E p \in Procs : OpenTmp(p)
  \/ \E p \in Procs : WriteTmp(p)
  \/ \E p \in Procs : Rename(p)
  \/ \E p \in Procs : RenameFails(p)

InitConfig ==
  /\ \E f \in InitialFiles, e \in Envs : (f = Absent \/ e = "unset") /\ StoreInit(f, e)
  /\ WatchInit
  /\ pool = [k \in Urls |-> NoEntry]
  /\ clients = <<>>
  /\ ttl = 1
  /\ reaperInterval = 0
  /\ now = 0
  /\ pc = [h \in Handlers |-> "idle"]
  /\ url = [h \in Handlers |-> "none"]
  /\ ret = [h \in Handlers |-> 0]
  /\ seen = [h \in Handlers |-> 0]
  /\ getEp = [h \in Handlers |-> 0]
  /\ lastOp = Other

SpecConfig == InitConfig /\ [][NextConfig]_vars

\* ------------------------------------------------ the running server

\* The contents the watched file takes: two databases, one of them removed,
\* the other one alone with autoReload off, and a text that does not parse.
WatchFiles ==
  { stringify([databases |-> [n \in {"a", "b"} |-> DbEntry(IF n = "a" THEN "u1" ELSE "u2")],
               autoReload |-> TRUE]),
    stringify([databases |-> [n \in {"a"} |-> DbEntry("u1")], autoReload |-> TRUE]),
    stringify([databases |-> [n \in {"b"} |-> DbEntry("u2")], autoReload |-> FALSE]),
    Corrupt }

\* The url that tool calls ask the pool for while the watcher runs; clients
\* for the other urls come from the watcher's reconcile.
ToolUrls == {"u1"}

\* Time that passes at once, in ms
Delays == {50, 100}

\* Timer callbacks that are at an await, and the first free place for one.
InProgress == { r \in 1..MaxReloads : reloads[r] # NoReload }
FirstFree == CHOOSE r \in 1..MaxReloads : reloads[r] = NoReload /\ \A q \in 1..r - 1 : reloads[q] # NoReload

\* stopWatching(): closes the watcher, clears the timer and the callback.
StopWatching ==
  /\ watcher' = FALSE
  /\ reloadTimer' = NoTimer
  /\ reloadCallback' = FALSE
  /\ sinceEvent' = NoEvent
  /\ unseen' = FALSE
  /\ lastOp' = Other
  /\ UNCHANGED <<reloads, events, pool, clients, timerVars, handlerVars, storeVars>>

\* startWatching(callback): stopWatching(), then the callback is set and
\* fs.watch is started on the file.
StartWatching ==
  /\ ~watcher
  /\ watcher' = TRUE
  /\ reloadTimer' = NoTimer
  /\ reloadCallback' = TRUE
  /\ sinceEvent' = NoEvent
  /\ unseen' = FALSE
  /\ lastOp' = Other
  /\ UNCHANGED <<reloads, events, pool, clients, timerVars, handlerVars, storeVars>>

\* The file gets the content c, or is written again; a running watcher's
\* listener clears the pending timer and sets a new one.
FileChange(c) ==
  /\ events < MaxEvents
  /\ watcher /\ ~reloadTimer.armed => Cardinality(InProgress) < MaxReloads
  /\ events' = events + 1
  /\ file' = c
  /\ reloadTimer' = IF watcher THEN rearm(reloadTimer) ELSE reloadTimer
  /\ sinceEvent' = IF watcher THEN heard(sinceEvent) ELSE sinceEvent
  /\ unseen' = watcher
  /\ lastOp' = Other
  /\ UNCHANGED <<watcher, reloadCallback, reloads, tmp, env, call, calls,
                 pool, clients, timerVars, handlerVars>>

\* d ms pass; a pending timer is not overrun.
Elapse(d) ==
  /\ reloadTimer.armed
  /\ d <= reloadTimer.left
  /\ reloadTimer' = [reloadTimer EXCEPT !.left = @ - d]
  /\ sinceEvent' = [sinceEvent EXCEPT !.ms = @ + d]
  /\ lastOp' = Other
  /\ UNCHANGED <<watcher, reloadCallback, reloads, unseen, events,
                 pool, clients, timerVars, handlerVars, storeVars>>

\* The debounce timer fires: its callback runs up to await this.loadConfig().
TimerFires ==
  /\ reloadTimer.armed
  /\ reloadTimer.left = 0
  /\ reloadTimer' = NoTimer
  /\ reloads' = [reloads EXCEPT ![FirstFree] = Reading]
  /\ sinceEvent' = [sinceEvent EXCEPT !.fired = TRUE]
  /\ lastOp' = Other
  /\ UNCHANGED <<watcher, reloadCallback, unseen, events,
                 pool, clients, timerVars, handlerVars, storeVars>>

\* loadConfig's readFile reads the file; the content is parsed and checked
\* when the read settles.
ReloadReads(r) ==
  /\ reloads[r] = Reading
  /\ reloads' = [reloads EXCEPT ![r] = Loaded(file)]
  /\ unseen' = FALSE
  /\ lastOp' = Other
  /\ UNCHANGED <<watcher, reloadCallback, reloadTimer, sinceEvent, events,
                 pool, clients, timerVars, handlerVars, storeVars>>

\* The urls for which new SQL(url) throws in the watcher's reconcile: those
\* that need a client when the clients of this behaviour are used up.
Exhausted(p, c, dbs) ==
  IF Len(c) + Cardinality(Missing(p, dbs)) > MaxClients THEN Missing(p, dbs) ELSE {}

\* loadConfig settles and the timer callback goes on: it calls the callback
\* with the new configuration, which reconciles the pool (a constructor that
\* throws ends reconcile, and the callback catches that), or it logs the
\* failed reload, or it does nothing.
ReloadSettles(r) ==
  /\ reloads[r] \notin {NoReload, Reading}
  /\ reloads' = [reloads EXCEPT ![r] = NoReload]
  /\ LET dbs == reloads[r].cfg.databases
         st == IF Invokes(reloads[r], reloadCallback)
                 THEN reconcile(State(pool, clients), dbs, dbNames(dbs),
                                Exhausted(pool, clients, dbs), now)
                 ELSE State(pool, clients) IN
       /\ pool' = st.pool
       /\ clients' = st.clients
  /\ lastOp' = outcome(reloads[r], reloadCallback)
  /\ UNCHANGED <<watcher, reloadCallback, reloadTimer, sinceEvent, unseen, events,
                 timerVars, handlerVars, storeVars>>

\* A tool handler's pool.get(url), when the constructor is not reached or
\* does not throw.
ToolGet(k) ==
  /\ Hit(pool, k) \/ Len(clients) < MaxClients
  /\ LET st == get(State(pool, clients), k, now) IN
       /\ pool' = st.pool
       /\ clients' = st.clients
  /\ lastOp' = Other
  /\ UNCHANGED <<handlerVars, timerVars, storeVars, watchVars>>

\* The watcher of createMcpServer with the pool it reconciles.
NextWatch ==
  \/ StartWatching
  \/ StopWatching
  \/ \E c \in WatchFiles : FileChange(c)
  \/ \E d \in Delays : Elapse(d)
  \/ TimerFires
  \/ \E r \in 1..MaxReloads : ReloadReads(r)
  \/ \E r \in 1..MaxReloads : ReloadSettles(r)
  \/ \E k \in ToolUrls : ToolGet(k)

InitWatch ==
  /\ \E f \in WatchFiles : StoreInit(f, "unset")
  /\ WatchInit
  /\ pool = [k \in Urls |-> NoEntry]
  /\ clients = <<>>
  /\ ttl = 1
  /\ reaperInterval = 0
  /\ now = 0
  /\ pc = [h \in Handlers |-> "idle"]
  /\ url = [h \in Handlers |-> "none"]
  /\ ret = [h \in Handlers |-> 0]
  /\ seen = [h \in Handlers |-> 0]
  /\ getEp = [h \in Handlers |-> 0]
  /\ lastOp = Other

SpecWatch == InitWatch /\ [][NextWatch]_vars

\* What the event loop does by itself: time passes up to the timer, the
\* timer fires, readFile and loadConfig settle.
Progress ==
  \/ \E d \in Delays : Elapse(d)
  \/ TimerFires
  \/ \E r \in 1..MaxReloads : ReloadReads(r)
  \/ \E r \in 1..MaxReloads : ReloadSettles(r)

\* Timers fire and file reads settle.
SpecWatchLive == SpecWatch /\ WF_vars(Progress)

\* ------------------------------------------------ the configuration tools

\* Configurations the file holds while the server runs: two names for one
\* url, each name alone, another url, and no database.
ToolConfigs ==
  { [databases |-> [n \in {"a", "b"} |-> DbEntry("u1")], autoReload |-> TRUE],
    [databases |-> [n \in {"a"} |-> DbEntry("u1")], autoReload |-> TRUE],
    [databases |-> [n \in {"b"} |-> DbEntry("u2")], autoReload |-> TRUE],
    [databases |-> EmptyDbs, autoReload |-> TRUE] }

\* this.pool[database] for an argument that is a name and no key of the pool
evictByName(st, n) == IF n \in DOMAIN st.pool THEN evict(st, n) ELSE st

\* A tool handler resolves the name n with the configuration in the file and
\* has the url of its descriptor.
ToolResolve(h, n) ==
  /\ n \in DOMAIN readData(file).databases
  /\ HandlerResolve(h, readData(file).databases[n].url)

\* The file gets the configuration c: pg_db_add's or pg_db_update's save, or
\* an edit of the file.
ConfigChange(c) ==
  /\ call["p1"] = Idle
  /\ stringify(c) # file
  /\ file' = stringify(c)
  /\ lastOp' = Other
  /\ UNCHANGED <<tmp, env, call, calls, pool, clients, timerVars, handlerVars, watchVars>>

\* loadConfig() and pool.reconcile(config), as pg_db_add, pg_db_update and
\* pg_db_reload end and as the watcher's callback does.
ReconcileStored ==
  /\ call["p1"] = Idle
  /\ LET dbs == readData(file).databases
         st == reconcile(State(pool, clients), dbs, dbNames(dbs),
                         Exhausted(pool, clients, dbs), now) IN
       /\ pool' = st.pool
       /\ clients' = st.clients
       /\ lastOp' = Op("reconcile", dbs)
  /\ UNCHANGED <<handlerVars, timerVars, storeVars, watchVars>>

\* pg_db_remove up to await configManager.loadConfig(): removeDatabase(name)
\* has saved the configuration without the name, and pool.evict(name) ran.
\* The call keeps the url of the removed descriptor and the client pooled
\* for it.
DbRemove(n) ==
  /\ call["p1"] = Idle
  /\ n \in DOMAIN readData(file).databases
  /\ LET cfg == readData(file)
         u == cfg.databases[n].url
         st == evictByName(State(pool, clients), n) IN
       /\ file' = stringify([cfg EXCEPT !.databases = withoutEntry(cfg.databases, n)])
       /\ call' = [call EXCEPT !["p1"] =
                     [Idle EXCEPT !.op = "pg_db_remove", !.name = n, !.pc = "reload",
                                  !.arg = [url |-> u, client |-> pool[u].client]]]
       /\ pool' = st.pool
       /\ clients' = st.clients
  /\ lastOp' = Other
  /\ UNCHANGED <<tmp, env, calls, timerVars, handlerVars, watchVars>>

\* pg_db_remove from loadConfig() on: pool.reconcile(remConfig), and the
\* tool returns.
DbRemoveReconciles ==
  /\ call["p1"].pc = "reload"
  /\ LET dbs == readData(file).databases
         st == reconcile(State(pool, clients), dbs, dbNames(dbs),
                         Exhausted(pool, clients, dbs), now) IN
       /\ pool' = st.pool
       /\ clients' = st.clients
       /\ lastOp' = Op("reconcile", dbs)
  /\ call' = [call EXCEPT !["p1"] = Idle]
  /\ UNCHANGED <<file, tmp, env, calls, timerVars, handlerVars, watchVars>>

\* The server's tools: handlers that query, and tools that change the
\* configuration and reconcile the pool.
NextTools ==
  \/ \E h \in Handlers, n \in Names : ToolResolve(h, n)
  \/ \E h \in Handlers : HandlerGet(h)
  \/ \E h \in Handlers : HandlerGetThrows(h)
  \/ \E h \in Handlers : HandlerNextQuery(h)
  \/ \E h \in Handlers : HandlerDone(h)
  \/ \E c \in ToolConfigs : ConfigChange(c)
  \/ ReconcileStored
  \/ \E n \in Names : DbRemove(n)
  \/ DbRemoveReconciles

InitTools ==
  /\ \E c \in ToolConfigs : StoreInit(stringify(c), "unset")
  /\ WatchInit
  /\ pool = [k \in Urls |-> NoEntry]
  /\ clients = <<>>
  /\ ttl = 1
  /\ reaperInterval = 0
  /\ now = 0
  /\ pc = [h \in Handlers |-> "idle"]
  /\ url = [h \in Handlers |-> "none"]
  /\ ret = [h \in Handlers |-> 0]
  /\ seen = [h \in Handlers |-> 0]
  /\ getEp = [h \in Handlers |-> 0]
  /\ lastOp = Other

SpecTools == InitTools /\ [][NextTools]_vars

\* ------------------------------------------------------------ the claims

Pooled(k) == pool[k].client # 0
Handles == 1..Len(clients)
UrlsOf(dbs) == { dbs[n].url : n \in DOMAIN dbs }
\* The time since get last returned the client pooled under k.
IdleTime(k) == now - clients[pool[k].client].used

\* C1: when two tool calls were both waiting to call get for the same url
\* while the pool had no entry for it, and both calls then ran in the same
\* cache-miss episode, exactly one client was constructed for the url in
\* that episode and both calls got that client's handle.
C1_SingleFlight ==
  \A h1, h2 \in Handlers :
    (/\ h1 # h2
     /\ pc[h1] = "query" /\ pc[h2] = "query"
     /\ url[h1] = url[h2]
     /\ seen[h1] = 0 /\ seen[h2] = 0
     /\ getEp[h1] = getEp[h2])
    => /\ ret[h1] = ret[h2]
       /\ Cardinality({ c \in Handles : clients[c].key = url[h1]
                                         /\ clients[c].ep = getEp[h1] }) = 1

C1_Witness ==
  \E h1, h2 \in Handlers :
    /\ h1 # h2
    /\ pc[h1] = "query" /\ pc[h2] = "query"
    /\ url[h1] = url[h2]
    /\ seen[h1] = 0 /\ seen[h2] = 0
    /\ getEp[h1] = getEp[h2]
    /\ ret[h1] = ret[h2] /\ ret[h1] # 0

\* C2: in every reachable state each url has at most one client that was
\* constructed and not yet ended.
C2_OneLiveClientPerKey ==
  \A k \in Urls : Cardinality({ c \in Handles : clients[c].key = k /\ ~clients[c].closed }) <= 1

C2_Witness ==
  \E c1, c2 \in Handles :
    /\ clients[c1].key = clients[c2].key
    /\ clients[c1].closed /\ ~clients[c2].closed
    /\ \E h \in Handlers : pc[h] = "query" /\ ret[h] = c1

\* C3: the handle a tool call gets from pool.get has not been ended; it is
\* the entry pooled when get ran or a client constructed by this get, and it
\* is the entry that was pooled when the call started if that one is still
\* open.
C3_GetReturnsOpenHandle ==
  [][\A h \in Handlers :
       (pc[h] = "get" /\ pc'[h] = "query")
       => LET c == ret'[h] IN
            /\ c \in 1..Len(clients')
            /\ ~clients'[c].closed
            /\ clients'[c].key = url[h]
            /\ (Pooled(url[h]) /\ c = pool[url[h]].client) \/ c > Len(clients)
            /\ (seen[h] # 0 /\ ~clients[seen[h]].closed) => c = seen[h]]_vars

C3_Witness ==
  \E h \in Handlers :
    /\ pc[h] = "query"
    /\ seen[h] # 0 /\ clients[seen[h]].closed
    /\ ret[h] # seen[h] /\ ~clients[ret[h]].closed

\* C4: reconcile(cfg) ends and removes every pooled url that no descriptor
\* of cfg has, and keeps the same open handle for every pooled url that a
\* descriptor of cfg has.
C4_ReconcileEvictsAbsentKeepsPresent ==
  [][lastOp'.op = "reconcile"
     => \A k \in Urls :
          Pooled(k) =>
            IF k \in UrlsOf(lastOp'.arg)
              THEN pool'[k].client = pool[k].client /\ ~clients'[pool[k].client].closed
              ELSE pool'[k].client = 0 /\ clients'[pool[k].client].closed]_vars

C4_Witness ==
  /\ lastOp.op = "reconcile"
  /\ \E k \in UrlsOf(lastOp.arg) : Pooled(k) /\ clients[pool[k].client].used < now
  /\ \E c \in Handles : clients[c].closed /\ clients[c].key \notin UrlsOf(lastOp.arg)

\* C5: reconcile(cfg) constructs no client, and a url of cfg that has no
\* pool entry still has none when reconcile returns.
C5_ReconcileConstructsNothing ==
  [][lastOp'.op = "reconcile"
     => /\ Len(clients') = Len(clients)
        /\ \A k \in Urls : ~Pooled(k) => pool'[k].client = 0]_vars

\* The handle the next get(k) returns, and the clients then.
NextGet(p, c, k, t) == get(State(p, c), k, t)
NextGetIsFor(p, c, k, t) ==
  LET st == NextGet(p, c, k, t) IN
    st.clients[st.pool[k].client].key = k /\ ~st.clients[st.pool[k].client].closed

\* The pool was last given the descriptors old (by reconcile, or by a get
\* for one descriptor) and is now reconciled with new, in which name n has
\* another url than in old.
UrlChanged(old, new, n) ==
  /\ old.op \in {"reconcile", "get"}
  /\ new.op = "reconcile"
  /\ n \in DOMAIN old.arg /\ n \in DOMAIN new.arg
  /\ old.arg[n].url # new.arg[n].url

\* C6: when the url of name n changes from U1 to U2 and reconcile
\* is called with the new configuration, the client pooled under U1 is ended
\* and removed, and the next get for n returns a client for U2.
C6_UrlChangeEvicts ==
  [][\A n \in Names :
       (UrlChanged(lastOp, lastOp', n) /\ Pooled(lastOp.arg[n].url))
       => /\ pool'[lastOp.arg[n].url].client = 0
          /\ clients'[pool[lastOp.arg[n].url].client].closed
          /\ NextGetIsFor(pool', clients', lastOp'.arg[n].url, now')]_vars

\* C7: a reaper tick ends and removes every entry that get last returned
\* more than the pool's TTL ago, and keeps every entry that get returned less
\* than the TTL ago.
C7_ReaperEvictsByIdleTime ==
  [][lastOp'.op = "tick"
     => \A k \in Urls :
          Pooled(k) =>
            /\ IdleTime(k) > ttl => pool'[k].client = 0 /\ clients'[pool[k].client].closed
            /\ IdleTime(k) < ttl => pool'[k].client = pool[k].client
                                      /\ ~clients'[pool[k].client].closed]_vars

C7_Witness ==
  /\ lastOp.op = "tick"
  /\ \E k \in Urls : Pooled(k) /\ IdleTime(k) < ttl /\ pool[k].lastUsed > 0
  /\ \E c \in Handles : clients[c].closed

\* C8: a reaper tick evicts by the TTL of the descriptor an entry was
\* created from: of two entries idle for the same time d, one from a
\* descriptor with ttl below d and one from a descriptor with ttl above d,
\* it evicts the first and keeps the second.
C8_ReaperUsesDescriptorTtl ==
  [][lastOp'.op = "tick"
     => \A k1, k2 \in Urls :
          (/\ Pooled(k1) /\ Pooled(k2)
           /\ IdleTime(k1) = IdleTime(k2)
           /\ TtlOf(k1) < IdleTime(k1) /\ IdleTime(k2) < TtlOf(k2))
          => pool'[k1].client = 0 /\ pool'[k2].client = pool[k2].client]_vars

\* C9: when get(k) has to construct a client and the constructor throws or
\* the server of k does not answer a probe, the call fails and the pool has
\* no entry for k afterwards.
C9_FailedGetNotCached ==
  [][\A h \in Handlers :
       (/\ pc[h] = "get" /\ pc'[h] # "get"
        /\ ~Pooled(url[h])
        /\ pc'[h] = "idle" \/ url[h] \in Unreachable)
       => pc'[h] = "idle" /\ pool'[url[h]].client = 0]_vars

\* C10: a get(k) that runs while another tool call holds the handle of an
\* earlier get(k), with no eviction of k since that earlier get, returns the
\* identical handle and constructs no client.
C10_SecondGetSameHandle ==
  [][\A h, h2 \in Handlers :
       (/\ h # h2
        /\ pc[h] = "get" /\ pc'[h] = "query"
        /\ pc[h2] = "query" /\ url[h2] = url[h]
        /\ getEp[h2] = Episode(clients, url[h]))
       => ret'[h] = ret[h2] /\ Len(clients') = Len(clients)]_vars

C10_Witness ==
  \E h, h2 \in Handlers :
    /\ h # h2
    /\ pc[h] = "query" /\ pc[h2] = "query"
    /\ url[h] = url[h2]
    /\ seen[h] # 0 /\ seen[h] = ret[h2]
    /\ ret[h] = ret[h2]

\* C11: evict(k) on a pooled key ends the client that was pooled, and the
\* next get(k) constructs a client and returns its handle, which is not the
\* evicted one.
C11_EvictThenGetIsNew ==
  [][lastOp'.op = "evict"
     => \A k \in DOMAIN lastOp'.arg :
          Pooled(k) =>
            /\ clients'[pool[k].client].closed
            /\ LET st == NextGet(pool', clients', k, now') IN
                 /\ st.pool[k].client # pool[k].client
                 /\ st.pool[k].client = Len(clients') + 1
                 /\ Len(st.clients) = Len(clients') + 1
                 /\ ~st.clients[st.pool[k].client].closed]_vars

C11_Witness ==
  /\ lastOp.op = "evict"
  /\ \E k \in DOMAIN lastOp.arg :
       /\ ~Pooled(k)
       /\ \E c \in Handles : clients[c].key = k /\ clients[c].closed
       /\ \A c \in Handles : clients[c].key = k => clients[c].closed

\* C12: evict(k) for a key without pool entry ends no client and leaves
\* every pool entry, handle and last-used time, as it was.
C12_EvictAbsentIsNoOp ==
  [][lastOp'.op = "evict"
     => \A k \in DOMAIN lastOp'.arg :
          ~Pooled(k) => pool' = pool /\ clients' = clients]_vars

C12_Witness ==
  /\ lastOp.op = "evict"
  /\ \E k \in DOMAIN lastOp.arg :
       /\ \A c \in Handles : clients[c].key # k
       /\ \E k2 \in Urls : Pooled(k2) /\ ~clients[pool[k2].client].closed

\* C13: when closeAll returns the pool has no entry and every client that
\* was pooled has been ended; a later get for any of those keys constructs
\* a new client.
C13_CloseAllEmptiesAndEnds ==
  [][lastOp'.op = "closeAll"
     => /\ \A k \in Urls : pool'[k].client = 0
        /\ \A k \in Urls :
             Pooled(k) =>
               /\ clients'[pool[k].client].closed
               /\ LET st == NextGet(pool', clients', k, now') IN
                    /\ st.pool[k].client = Len(clients') + 1
                    /\ ~st.clients[st.pool[k].client].closed]_vars

C13_Witness ==
  /\ lastOp.op = "closeAll"
  /\ \A k \in Urls : ~Pooled(k)
  /\ \A k \in Urls : \E c \in Handles : clients[c].key = k /\ clients[c].closed

\* ------------------------------------------- the claims about the store

\* Caller p's save is renamed over the file in this step.
Renames(p) == call[p].pc = "rename" /\ tmp # Absent /\ call'[p].pc # "rename"
\* Caller p has <path>.tmp open or written and not yet renamed.
Writing(p) == call[p].pc \in {"write", "rename"}
\* No other caller's save is under way.
SoleWriter(p) == \A q \in Procs \ {p} : ~Writing(q)
\* Caller p makes a call in this step.
Calls(p) == calls' = calls + 1 /\ call[p].pc \in {"idle", "done"} /\ call'[p].op # "none"
\* A Configuration as typed: autoReload and every ttl are there.
Typed(c) ==
  /\ "autoReload" \in DOMAIN c
  /\ \A n \in DOMAIN c.databases : "ttl" \in DOMAIN c.databases[n]
\* What loadConfig() and getConfig(n) return for the file f.
NextLoad(f, e) == loadConfig([Idle EXCEPT !.op = "load", !.stage = "load"], f, e)
NextGetConfig(f, e, n) ==
  loadConfig([Idle EXCEPT !.op = "get", !.name = n, !.stage = "load"], f, e)

C15_NoLostUpdate ==
  [][\A p \in Procs :
       (/\ Renames(p)
        /\ call[p].op \in {"add", "update", "remove"} /\ call[p].stage = "save"
        /\ call[p].peer.name \notin {"none", call[p].name})
       => /\ file'.kind = "json"
          /\ (call[p].peer.name \in DOMAIN file'.value.databases) = call[p].peer.stored
          /\ (call[p].name \in DOMAIN file'.value.databases) = (call[p].op # "remove")]_vars

\* C16: the readFile of a load never reads a file that was opened for
\* writing and not yet written.
C16_LoadReadsCompleteFile ==
  [][\A p \in Procs :
       (Calls(p) /\ call'[p].op # "save") => file.kind # "partial"]_vars

\* A descriptor as the specification wants it: the url is a URL and the ttl
\* a positive integer.
WellFormed(e) == e.url \in Urls /\ ("ttl" \in DOMAIN e => e.ttl > 0)

\* C17: saveConfig rejects every configuration with a descriptor whose url
\* is no URL or whose ttl is not a positive integer: a configuration it
\* goes on to write has only descriptors with a URL and a positive ttl.
C17_SaveRejectsMalformed ==
  [][\A p \in Procs :
       (Calls(p) /\ call'[p].op = "save" /\ call'[p].pc = "open")
       => \A n \in DOMAIN call'[p].cfg.databases : WellFormed(call'[p].cfg.databases[n])]_vars

\* A file that exists and is no JSON text or does not match ConfigSchema.
Unloadable(f) == f # Absent /\ (f.kind # "json" \/ ~ConfigSchema(f.value).success)

\* C18: a call that loads a file that exists and cannot be parsed or does
\* not match the schema fails, and the file stays as it is.
C18_LoadFailsOnBadFile ==
  [][\A p \in Procs :
       (Calls(p) /\ call'[p].op # "save" /\ Unloadable(file))
       => /\ call'[p].pc = "done"
          /\ call'[p].res = "LoadFailed"
          /\ file' = file /\ tmp' = tmp]_vars

C18_Witness ==
  \E p \in Procs :
    /\ call[p].op = "load" /\ call[p].pc = "done" /\ call[p].res = "LoadFailed"
    /\ file.kind = "json" /\ ~ConfigSchema(file.value).success

\* The configuration loadConfig is to make when there is no file.
Synthesized(e) ==
  [databases |-> IF e = "unset" THEN EmptyDbs
                 ELSE [n \in {"default"} |-> [url |-> e, ttl |-> 60000]],
   autoReload |-> TRUE]

C20_AddThenGet ==
  [][\A p \in Procs :
       /\ (Renames(p) /\ SoleWriter(p) /\ call[p].op = "add" /\ call[p].stage = "save")
          => /\ NextGetConfig(file', env, call[p].name).res = "ok"
             /\ NextGetConfig(file', env, call[p].name).arg.url = call[p].arg.url
             /\ "ttl" \in DOMAIN call[p].arg
                  => NextGetConfig(file', env, call[p].name).arg = call[p].arg
       /\ (/\ Calls(p) /\ call'[p].op = "add"
           /\ file.kind = "json" /\ ConfigSchema(file.value).success
           /\ call'[p].name \in DOMAIN file.value.databases)
          => /\ call'[p].pc = "done" /\ call'[p].res = "AlreadyExists"
             /\ file' = file /\ tmp' = tmp]_vars

C20_Witness ==
  \E p \in Procs :
    /\ call[p].op = "add" /\ call[p].pc = "done" /\ call[p].res = "ok"
    /\ file.kind = "json"
    /\ call[p].name \in DOMAIN file.value.databases
    /\ file.value.databases[call[p].name] = call[p].arg
    /\ NextGetConfig(file, env, call[p].name).arg = call[p].arg

\* The file holds a configuration that loadConfig returns, and that
\* configuration.
Loadable(f) == f.kind = "json" /\ ConfigSchema(f.value).success
Stored(f) == ConfigSchema(f.value).data
\* Caller p calls operation o in this step, on a file that loads.
CallsOn(p, o) == Calls(p) /\ call'[p].op = o /\ Loadable(file)
\* Caller p's call fails with r in this step and writes nothing.
FailsWith(p, r) ==
  /\ call'[p].pc = "done" /\ call'[p].res = r
  /\ file' = file /\ tmp' = tmp

C23_ResolveDatabaseName ==
  [][\A p \in Procs :
       CallsOn(p, "resolve") =>
         LET names == DOMAIN Stored(file).databases
             requested == call'[p].name IN
         /\ call'[p].pc = "done"
         /\ requested # "none"
              => call'[p].res = "ok" /\ call'[p].arg.name = requested
         /\ requested = "none" /\ Cardinality(names) = 1
              => call'[p].res = "ok" /\ names = {call'[p].arg.name}
         /\ requested = "none" /\ Cardinality(names) > 1
              => call'[p].res = "Multiple" /\ call'[p].msg = names
         /\ requested = "none" /\ names = {}
              => call'[p].res = "NoDatabases"]_vars

\* A reload of the watcher begins, and the reload in place r settles.
ReloadStarts == \E r \in 1..MaxReloads : reloads[r] = NoReload /\ reloads'[r] = Reading
Settles(r) == reloads[r] \notin {NoReload, Reading} /\ reloads'[r] = NoReload
\* onChange is invoked in this step, and the pool is left alone.
OnChange == lastOp'.op = "reconcile"
PoolUntouched == pool' = pool /\ clients' = clients
\* The content c loads and has autoReload on.
AutoReload(c) == Loadable(c) /\ Stored(c).autoReload

\* C24: when a reload of the running watcher settles, onChange is invoked,
\* with the configuration read, if and only if the content read loads and
\* has autoReload true; otherwise the pool is not reconciled.
C24_OnChangeIffAutoReload ==
  [][\A r \in 1..MaxReloads :
       (Settles(r) /\ reloadCallback)
       => /\ OnChange <=> (reloads[r].ok /\ reloads[r].cfg.autoReload)
          /\ OnChange => lastOp'.arg = reloads[r].cfg.databases
          /\ ~OnChange => PoolUntouched]_vars

C24_Witness ==
  /\ lastOp.op = "noAutoReload"
  /\ watcher
  /\ Pooled("u1")
  /\ AutoReload(file) = FALSE /\ Loadable(file)
  /\ "a" \notin DOMAIN Stored(file).databases

\* C25: a reload begins only one debounce window after the last change
\* event of a burst, once for the burst, and every burst heard by a running
\* watcher gets its reload.
C25_DebounceOneReload ==
  /\ [][ReloadStarts => /\ sinceEvent.n >= 1 /\ ~sinceEvent.fired
                        /\ sinceEvent.ms = DEBOUNCE_MS]_vars
  /\ (sinceEvent.n >= 1 /\ ~sinceEvent.fired) ~> (sinceEvent.fired \/ ~watcher)

C25_Witness ==
  /\ sinceEvent = [n |-> 3, ms |-> DEBOUNCE_MS, fired |-> TRUE]
  /\ reloads[1] = Reading
  /\ reloads[2] = NoReload

\* C26: a change of the file that a running watcher is told of, to a
\* content that loads with autoReload true, leads to a reconcile of the pool
\* against the file's configuration, and after a reconcile by the watcher the
\* pool has no entry for a url that the configuration does not have.
C26_ChangeLeadsToReconcile ==
  /\ [][\A r \in 1..MaxReloads :
          (Settles(r) /\ OnChange)
          => \A k \in Urls : pool'[k].client # 0 => k \in UrlsOf(lastOp'.arg)]_vars
  /\ (watcher /\ unseen /\ AutoReload(file))
       ~> (\/ ~watcher
           \/ ~AutoReload(file)
           \/ lastOp = Op("reconcile", Stored(file).databases))

C26_Witness ==
  /\ watcher
  /\ AutoReload(file)
  /\ DOMAIN Stored(file).databases = {"a"}
  /\ lastOp = Op("reconcile", Stored(file).databases)
  /\ \E i \in 1..Len(clients) : clients[i].key = "u2" /\ clients[i].closed
  /\ ~Pooled("u2")

\* C27: when the reload of the watcher fails, the failure is logged,
\* onChange is not invoked, the pool and the watcher are as they were, and
\* a change of the file after that sets the debounce timer again.
C27_FailedReloadIsSwallowed ==
  [][/\ \A r \in 1..MaxReloads :
          (Settles(r) /\ ~reloads[r].ok)
          => /\ lastOp'.op = "reloadFailed"
             /\ PoolUntouched
             /\ watcher' = watcher /\ reloadCallback' = reloadCallback
             /\ reloadTimer' = reloadTimer
     /\ (events' = events + 1 /\ watcher)
          => reloadTimer' = [armed |-> TRUE, left |-> DEBOUNCE_MS]]_vars

C27_Witness ==
  /\ lastOp.op = "reloadFailed"
  /\ watcher
  /\ \E k \in Urls : Pooled(k)
  /\ reloadTimer.armed

\* C28: stopWatching leaves no watcher, no pending timer and no callback,
\* whether or not the watcher was started, and while the watcher is stopped
\* no reload invokes onChange, also one that was in progress at the stop.
C28_StopIsFinal ==
  /\ [](~watcher => ~reloadTimer.armed /\ ~reloadCallback)
  /\ [][\A r \in 1..MaxReloads :
          (Settles(r) /\ ~watcher) => ~OnChange /\ PoolUntouched]_vars

C28_Witness ==
  /\ lastOp.op = "stopped"
  /\ ~watcher
  /\ \E k \in Urls : Pooled(k)

\* C30: in the running server a pooled client that has not been used for
\* longer than the TTL is eventually closed.
C30_IdleClientIsReaped ==
  \A i \in 1..MaxClients :
    (/\ i <= Len(clients)
     /\ pool[clients[i].key].client = i
     /\ now - pool[clients[i].key].lastUsed > ttl)
    ~> (i <= Len(clients) /\ clients[i].closed)

C33_LoadAppliesDefaults ==
  [][\A p \in Procs :
       CallsOn(p, "load") =>
         /\ call'[p].pc = "done" /\ call'[p].res = "ok"
         /\ call'[p].cfg.autoReload =
              IF "autoReload" \in DOMAIN file.value THEN file.value.autoReload ELSE FALSE
         /\ DOMAIN call'[p].cfg.databases = DOMAIN file.value.databases
         /\ \A n \in DOMAIN file.value.databases :
              /\ call'[p].cfg.databases[n].url = file.value.databases[n].url
              /\ call'[p].cfg.databases[n].ttl =
                   IF "ttl" \in DOMAIN file.value.databases[n]
                     THEN file.value.databases[n].ttl ELSE 60000]_vars

C33_Witness ==
  \E p \in Procs :
    /\ call[p].op = "load" /\ call[p].pc = "done" /\ call[p].res = "ok"
    /\ file = [kind |-> "json", value |-> [databases |-> [n \in {"a"} |-> [url |-> "u1"]]]]
    /\ call[p].cfg = [databases |-> [n \in {"a"} |-> [url |-> "u1", ttl |-> 60000]],
                      autoReload |-> FALSE]

\* A descriptor that DbEntrySchema refuses: no url, or a negative ttl.
Refused(e) == "url" \notin DOMAIN e \/ ("ttl" \in DOMAIN e /\ e.ttl < 0)
\* The fields of u laid over the descriptor e.
Over(e, u) == [f \in DOMAIN e \cup DOMAIN u |-> IF f \in DOMAIN u THEN u[f] ELSE e[f]]

C37_DroppedClientsAreEnded ==
  /\ [](\A c \in Handles : clients[c].closed \/ pool[clients[c].key].client = c)
  /\ [][\A k \in Urls :
          (Pooled(k) /\ pool'[k].client # pool[k].client)
            => clients'[pool[k].client].closed]_vars

C37_Witness ==
  /\ lastOp.op \in {"evict", "reconcile", "closeAll", "tick"}
  /\ \E c, d \in Handles :
       /\ clients[c].closed /\ pool[clients[c].key].client # c
       /\ ~clients[d].closed /\ pool[clients[d].key].client = d

\* C40: reconcile(cfg) called again directly after a reconcile(cfg) that
\* returned ends no client, constructs none and leaves every key with the
\* entry it had, whatever the order of the descriptors.
C40_ReconcileIsIdempotent ==
  [][(/\ lastOp'.op = "reconcile"
      /\ \A u \in UrlsOf(lastOp'.arg) : pool'[u].client # 0)
     => \A ord \in Orders(DOMAIN lastOp'.arg) :
          reconcile(State(pool', clients'), lastOp'.arg, ord, {}, now')
            = State(pool', clients')]_vars

C40_Witness ==
  /\ lastOp.op = "reconcile"
  /\ UrlsOf(lastOp.arg) = {"u1"}
  /\ Pooled("u1") /\ ~Pooled("u2")
  /\ \E c \in Handles : clients[c].closed /\ clients[c].key = "u2"

\* C39: the pool never has more than one reaper timer running, however
\* often startIdleReaper is called; stopIdleReaper returns whether or not a
\* timer runs and leaves none running; a tick happens only while a timer
\* runs, so none evicts after stopIdleReaper until the reaper is started
\* again.
C39_OneReaperTimer ==
  /\ [](reaperInterval <= 1)
  /\ [][/\ lastOp'.op = "startIdleReaper" => reaperInterval' = 1
        /\ lastOp'.op = "stopIdleReaper" => reaperInterval' = 0
        /\ lastOp'.op \in {"tick", "tickThrows", "tickRejects"} => reaperInterval > 0]_vars

C39_Witness ==
  /\ lastOp.op = "stopIdleReaper"
  /\ reaperInterval = 0
  /\ \E k \in Urls : Pooled(k) /\ IdleTime(k) > ttl

\* C31: when end() fails for one expired entry during a reaper tick, every
\* other entry that is expired at that tick is evicted by that tick.
C31_FailedCloseDoesNotStopTick ==
  [][lastOp'.op \in {"tickThrows", "tickRejects"}
     => \A k \in Urls :
          (Pooled(k) /\ IdleTime(k) > ttl /\ k \notin DOMAIN lastOp'.arg)
            => pool'[k].client = 0 /\ clients'[pool[k].client].closed]_vars

\* C34: at most one reload of the watcher is between the firing of its
\* timer and the end of its callback.
C34_ReloadsDoNotOverlap == Cardinality(InProgress) <= 1

\* C32: when pg_db_remove(name) returns, the client that was pooled for the
\* url of the removed descriptor when the tool removed it has been ended and
\* is no longer the entry of that url.
C32_RemoveClosesClient ==
  [][(call["p1"].pc = "reload" /\ call'["p1"] = Idle /\ call["p1"].arg.client # 0)
     => /\ clients'[call["p1"].arg.client].closed
        /\ pool'[call["p1"].arg.url].client # call["p1"].arg.client]_vars

\* C35: when no tool handler is in progress and the last thing done to the
\* configuration was a reconcile of the pool with what the file holds, every
\* key of the pool is the url of a descriptor in the file.
C35_NoEntryForRemovedDescriptor ==
  (/\ \A h \in Handlers : pc[h] = "idle"
   /\ call["p1"] = Idle
   /\ lastOp = Op("reconcile", Stored(file).databases))
  => \A k \in Urls : Pooled(k) => k \in UrlsOf(Stored(file).databases)

\* C36: a handler that sends a further query on the client it got from the
\* pool sends it on a client that has not been ended.
C36_QueryOnOpenClient ==
  [][\A h \in Handlers :
       (pc[h] = "query" /\ pc'[h] = "query2") => ~clients[ret[h]].closed]_vars

====
